---- MODULE Spec2Model ----
(***************************************************************************)
(* Model of the manifest loader of woid: Workspace.__init__ and the        *)
(* parsers it calls (src/src/woid/workspace.py), with log.fatal            *)
(* (src/src/woid/log.py) as the terminating error path.                    *)
(*                                                                         *)
(* Strings that the code inspects character by character (the version)     *)
(* are sequences of one-character strings.  Host and project names are     *)
(* natural numbers: the number is the rank of the name in lexicographic    *)
(* order, and 0 is the empty string.                                       *)
(***************************************************************************)
EXTENDS Integers, Sequences, FiniteSets, TLC

\* ---------------------------------------------------------------- bounds
MaxVerLen == 4
MaxHosts == 2
MaxProjects == 2

\* ------------------------------------------------------- program constants
WS_JSON_PATH == "woid.json"
PROJECTS_DIR == "projects/"

\* ------------------------------------------------------------ input values
Chars == {"0", "1", ".", "a", "-"}
Digits == <<"0", "1", "2", "3", "4", "5", "6", "7", "8", "9">>

Strings(n) == UNION {[1..k -> Chars] : k \in 0..n}

\* JSON values of the top-level field "version".
VersionValues ==
    {[t |-> "absent"], [t |-> "null"]}
    \cup {[t |-> "int", n |-> n] : n \in 0..1}
    \cup {[t |-> "float", i |-> i, f |-> f] : i \in 0..1, f \in 0..1}
    \cup {[t |-> "str", s |-> s] : s \in Strings(MaxVerLen)}

HostNames == 1..MaxHosts
ProjectNames == 1..MaxProjects
UrlValues == {"", "https://h"}
ExtraKeys == {"extra", "branch"}

\* A host's JSON object is a function from its keys to their values.
HostObjects ==
    UNION {{f \in [K -> UrlValues \cup {"x"}] :
              \A k \in K : IF k = "url" THEN f[k] \in UrlValues ELSE f[k] = "x"}
           : K \in SUBSET ({"url"} \cup ExtraKeys)}

HostJsons == {[t |-> "obj", f |-> f] : f \in HostObjects} \cup {[t |-> "str"]}

\* A project's JSON object: the value of "host" is a name (0 is ""); the name
\* MaxHosts + 1 is one that no manifest declares.
ProjectObjects == UNION {[K -> 0..(MaxHosts + 1)] : K \in SUBSET {"host"}}

ProjectJsons == {[t |-> "obj", f |-> f] : f \in ProjectObjects} \cup {[t |-> "str"]}

\* Ordered JSON objects with unique keys, at most n entries.
Items(names, jsons, n) ==
    {s \in UNION {[1..k -> [k : names, v : jsons]] : k \in 0..n} :
        \A i, j \in DOMAIN s : i # j => s[i].k # s[j].k}

NonObjects == {[t |-> "absent"], [t |-> "null"], [t |-> "str"]}

HostsValues(jsons) ==
    NonObjects \cup {[t |-> "obj", items |-> s] : s \in Items(HostNames, jsons, MaxHosts)}

ProjectsValues ==
    NonObjects \cup {[t |-> "obj", items |-> s] : s \in Items(ProjectNames, ProjectJsons, MaxProjects)}

GoodHost == [t |-> "obj", f |-> [k \in {"url"} |-> "https://h"]]
BadHost == [t |-> "obj", f |-> [k \in {"extra"} |-> "x"]]

SampleVersions ==
    {[t |-> "str", s |-> <<"1", ".", "0">>], [t |-> "str", s |-> <<"1">>], [t |-> "absent"]}

SampleHosts ==
    {[t |-> "absent"],
     [t |-> "obj", items |-> <<[k |-> 1, v |-> GoodHost]>>],
     [t |-> "obj", items |-> <<[k |-> 1, v |-> BadHost]>>]}

SampleProjects ==
    {[t |-> "absent"],
     [t |-> "obj", items |-> <<[k |-> 1, v |-> [t |-> "obj", f |-> [k \in {"host"} |-> 1]]]>>],
     [t |-> "obj", items |-> <<[k |-> 1, v |-> [t |-> "obj", f |-> [k \in {"host"} |-> 2]]]>>]}

Object(v, h, p) == [kind |-> "object", version |-> v, hosts |-> h, projects |-> p]

\* The manifest files the model loads: an unreadable file, a file that is
\* not JSON, JSON whose top level is not an object, and objects in which one
\* stage's input ranges over all its values and the others over samples.
IsManifest(m) ==
    \/ m \in {[kind |-> "unreadable"], [kind |-> "undecodable"], [kind |-> "list"]}
    \/ \E v \in VersionValues, h \in SampleHosts, p \in SampleProjects : m = Object(v, h, p)
    \/ \E v \in SampleVersions, h \in HostsValues(HostJsons), p \in SampleProjects : m = Object(v, h, p)
    \/ \E v \in SampleVersions, h \in HostsValues({GoodHost}), p \in ProjectsValues : m = Object(v, h, p)

\* ------------------------------------------------------------ python values
\* str(v) of a version value.
StrOf(v) ==
    CASE v.t = "str" -> v.s
      [] v.t = "int" -> <<Digits[v.n + 1]>>
      [] v.t = "float" -> <<Digits[v.i + 1], ".", Digits[v.f + 1]>>
      [] OTHER -> <<"N", "o", "n", "e">>

\* bool(v): None, 0, 0.0, "" and {} are false.
VersionTruthy(v) ==
    CASE v.t = "str" -> v.s # <<>>
      [] v.t = "int" -> v.n # 0
      [] v.t = "float" -> v.i # 0 \/ v.f # 0
      [] OTHER -> FALSE

FieldTruthy(x) ==
    CASE x.t = "obj" -> x.items # <<>>
      [] x.t = "str" -> TRUE
      [] OTHER -> FALSE

\* str.split(".")
RECURSIVE Split(_)
Split(s) ==
    IF \A i \in DOMAIN s : s[i] # "."
    THEN <<s>>
    ELSE LET i == CHOOSE i \in DOMAIN s : s[i] = "." /\ \A j \in 1..(i - 1) : s[j] # "."
         IN <<SubSeq(s, 1, i - 1)>> \o Split(SubSeq(s, i + 1, Len(s)))

IsDigit(c) == \E d \in DOMAIN Digits : Digits[d] = c
DigitVal(c) == (CHOOSE d \in DOMAIN Digits : Digits[d] = c) - 1

RECURSIVE NatVal(_)
NatVal(s) == IF s = <<>> THEN 0 ELSE 10 * NatVal(SubSeq(s, 1, Len(s) - 1)) + DigitVal(s[Len(s)])

\* int(s) over Chars: an optional sign followed by one or more digits.
IntBody(s) == IF s # <<>> /\ s[1] = "-" THEN Tail(s) ELSE s
IntOk(s) == IntBody(s) # <<>> /\ \A i \in DOMAIN IntBody(s) : IsDigit(IntBody(s)[i])
IntVal(s) == IF s # <<>> /\ s[1] = "-" THEN 0 - NatVal(IntBody(s)) ELSE NatVal(IntBody(s))

\* str(n) of an integer, as the f-string of Workspace.dump formats it.
RECURSIVE NatStr(_)
NatStr(n) == IF n < 10 THEN <<Digits[n + 1]>> ELSE NatStr(n \div 10) \o <<Digits[(n % 10) + 1]>>

IntStr(n) == IF n < 0 THEN <<"-">> \o NatStr(0 - n) ELSE NatStr(n)

\* ------------------------------------------------------------------ dicts
\* Faulty variant of DictPop: the key is read but not removed.
DictPopKeepsKey(d, key) == d

\* dict.pop(key, None): the dict that is left.
DictPop(d, key) == [x \in (DOMAIN d) \ {key} |-> d[x]]

\* An insertion-ordered dict is a sequence of entries with a name.
Keys(od) == [i \in DOMAIN od |-> od[i].name]
KeySet(od) == {od[i].name : i \in DOMAIN od}
HasKey(od, key) == \E i \in DOMAIN od : od[i].name = key

\* Faulty variant of DictGet: an absent key falls back to the first entry.
DictGetOrFirst(od, key) ==
    IF HasKey(od, key) THEN <<od[CHOOSE i \in DOMAIN od : od[i].name = key]>>
    ELSE IF od # <<>> THEN <<od[1]>> ELSE <<>>

\* dict.get(key): the entry, or None (here: no entry) when the key is absent.
DictGet(od, key) ==
    IF HasKey(od, key) THEN <<od[CHOOSE i \in DOMAIN od : od[i].name = key]>> ELSE <<>>

\* res[name] = entry
DictSet(od, entry) ==
    IF HasKey(od, entry.name)
    THEN [i \in DOMAIN od |-> IF od[i].name = entry.name THEN entry ELSE od[i]]
    ELSE Append(od, entry)

\* Variant of ValidHosts: sorted(ws.hosts.keys()).
ValidHostsSorted(od) ==
    LET S == KeySet(od)
    IN [i \in 1..Cardinality(S) |-> CHOOSE x \in S : Cardinality({y \in S : y < x}) = i - 1]

\* list(ws.hosts.keys()), the valid_hosts payload of the unresolved-host error.
ValidHosts(od) == Keys(od)

\* ------------------------------------------------------------------ state
VARIABLES
    manifest,      \* the content of the file at `path` (never written)
    pc,            \* position in Workspace.__init__
    outcome,       \* "running", "Loaded", "Failed" (log.fatal), "Crashed" (uncaught exception)
    error,         \* payload of the fatal error, or the exception raised
    woid_version,  \* <<>> until assigned, then <<Version>>
    root_dir,      \* "" until assigned
    projects_dir,  \* <<>> until assigned
    hosts,         \* dict name -> Host, in insertion order
    projects,      \* dict name -> Project, in insertion order
    warnings,      \* log.wrn events, in order
    fs,            \* directories holding a repository created by the load
    reads,         \* number of reads of the manifest file
    dumped         \* <<>> until log.dbg receives Workspace.dump()

vars == <<manifest, pc, outcome, error, woid_version, root_dir, projects_dir, hosts,
          projects, warnings, fs, reads, dumped>>

NoError == [kind |-> "none", field |-> "", context |-> 0, value |-> <<>>, validOptions |-> <<>>]

Init ==
    /\ IsManifest(manifest)
    /\ pc = "read"
    /\ outcome = "running"
    /\ error = NoError
    /\ woid_version = <<>>
    /\ root_dir = ""
    /\ projects_dir = <<>>
    /\ hosts = <<>>
    /\ projects = <<>>
    /\ warnings = <<>>
    /\ fs = {}
    /\ reads = 0
    /\ dumped = <<>>

\* log.fatal: report the error and sys.exit(-1).
fatal(e) ==
    /\ outcome' = "Failed"
    /\ error' = e
    /\ pc' = "exit"

\* An exception no handler catches: the interpreter prints it and exits.
\* `where` is the function the traceback ends in.
Raise(exc, where) ==
    /\ outcome' = "Crashed"
    /\ error' = [NoError EXCEPT !.kind = exc, !.field = where]
    /\ pc' = "exit"

MissingField(field, context) == [NoError EXCEPT !.kind = "MissingField", !.field = field, !.context = context]

\* text = path.read_text()
ReadText ==
    /\ pc = "read"
    /\ reads' = reads + 1
    /\ IF manifest.kind = "unreadable"
       THEN fatal([NoError EXCEPT !.kind = "IOFailure"])
       ELSE pc' = "decode" /\ UNCHANGED <<outcome, error>>
    /\ UNCHANGED <<manifest, woid_version, root_dir, projects_dir, hosts, projects, warnings, fs, dumped>>

\* Faulty variant of DecodeJson: the hosts are parsed before the version.
DecodeJsonThenHosts ==
    /\ pc = "decode"
    /\ IF manifest.kind = "undecodable"
       THEN fatal([NoError EXCEPT !.kind = "DecodeFailure"])
       ELSE pc' = "hosts" /\ UNCHANGED <<outcome, error>>
    /\ UNCHANGED <<manifest, woid_version, root_dir, projects_dir, hosts, projects, warnings, fs, reads, dumped>>

\* json = decode_json(text)
DecodeJson ==
    /\ pc = "decode"
    /\ IF manifest.kind = "undecodable"
       THEN fatal([NoError EXCEPT !.kind = "DecodeFailure"])
       ELSE pc' = "version" /\ UNCHANGED <<outcome, error>>
    /\ UNCHANGED <<manifest, woid_version, root_dir, projects_dir, hosts, projects, warnings, fs, reads, dumped>>

\* self._woid_version = self._parse_workspace_version(json), then root_dir
\* and projects_dir.
ParseWorkspaceVersion ==
    /\ pc = "version"
    /\ IF manifest.kind # "object"
       THEN Raise("AttributeError", "_parse_workspace_version") /\ UNCHANGED <<woid_version, root_dir, projects_dir>>
       ELSE IF ~VersionTruthy(manifest.version)
       THEN fatal(MissingField("version", 0)) /\ UNCHANGED <<woid_version, root_dir, projects_dir>>
       ELSE LET s == StrOf(manifest.version)
                parts == Split(s)
            IN IF Len(parts) # 2
               THEN /\ fatal([NoError EXCEPT !.kind = "MalformedVersion", !.value = s])
                    /\ UNCHANGED <<woid_version, root_dir, projects_dir>>
               ELSE IF ~(IntOk(parts[1]) /\ IntOk(parts[2]))
               THEN Raise("ValueError", "_parse_workspace_version") /\ UNCHANGED <<woid_version, root_dir, projects_dir>>
               ELSE /\ woid_version' = <<[major |-> IntVal(parts[1]), minor |-> IntVal(parts[2])]>>
                    /\ root_dir' = "/ws"
                    /\ projects_dir' = <<"/ws", PROJECTS_DIR>>
                    /\ pc' = "hosts"
                    /\ UNCHANGED <<outcome, error>>
    /\ UNCHANGED <<manifest, hosts, projects, warnings, fs, reads, dumped>>

\* hosts := json.get("hosts"): the truth test that opens _parse_workspace_hosts.
ParseWorkspaceHosts ==
    /\ pc = "hosts"
    /\ IF ~FieldTruthy(manifest.hosts)
       THEN fatal(MissingField("hosts", 0))
       ELSE IF manifest.hosts.t # "obj"
       THEN Raise("AttributeError", "_parse_workspace_hosts")
       ELSE pc' = "host_loop" /\ UNCHANGED <<outcome, error>>
    /\ UNCHANGED <<manifest, woid_version, root_dir, projects_dir, hosts, projects, warnings, fs, reads, dumped>>

\* One iteration of the loop: res[host_name] = Host(name=host_name, json=host_json)
HostInit ==
    /\ pc = "host_loop"
    /\ Len(hosts) < Len(manifest.hosts.items)
    /\ LET item == manifest.hosts.items[Len(hosts) + 1]
           json == item.v
       IN IF json.t # "obj"
          THEN Raise("AttributeError", "Host.__init__") /\ UNCHANGED <<hosts, warnings>>
          ELSE IF ~("url" \in DOMAIN json.f /\ json.f["url"] # "")
          THEN fatal(MissingField("url", item.k)) /\ UNCHANGED <<hosts, warnings>>
          ELSE LET rest == DictPop(json.f, "url")
               IN /\ hosts' = DictSet(hosts, [name |-> item.k, url |-> json.f["url"]])
                  /\ warnings' = IF DOMAIN rest # {}
                                  THEN Append(warnings, [host |-> item.k, keys |-> DOMAIN rest])
                                  ELSE warnings
                  /\ UNCHANGED <<pc, outcome, error>>
    /\ UNCHANGED <<manifest, woid_version, root_dir, projects_dir, projects, fs, reads, dumped>>

\* return res; self.hosts = res
ParseWorkspaceHostsReturn ==
    /\ pc = "host_loop"
    /\ Len(hosts) = Len(manifest.hosts.items)
    /\ pc' = "projects"
    /\ UNCHANGED <<manifest, outcome, error, woid_version, root_dir, projects_dir, hosts, projects,
                   warnings, fs, reads, dumped>>

\* projects := json.get("projects"): the truth test that opens _parse_workspace_projects.
ParseWorkspaceProjects ==
    /\ pc = "projects"
    /\ IF ~FieldTruthy(manifest.projects)
       THEN fatal(MissingField("projects", 0))
       ELSE IF manifest.projects.t # "obj"
       THEN Raise("AttributeError", "_parse_workspace_projects")
       ELSE pc' = "project_loop" /\ UNCHANGED <<outcome, error>>
    /\ UNCHANGED <<manifest, woid_version, root_dir, projects_dir, hosts, projects, warnings, fs, reads, dumped>>

\* One iteration of the loop: res[project_name] = Project(name, json, ws=self),
\* Repo.init(path, mkdir=True, bare=True) included.
ProjectInit ==
    /\ pc = "project_loop"
    /\ Len(projects) < Len(manifest.projects.items)
    /\ LET item == manifest.projects.items[Len(projects) + 1]
           json == item.v
       IN IF json.t # "obj"
          THEN Raise("AttributeError", "Project.__init__") /\ UNCHANGED <<projects, fs>>
          ELSE IF ~("host" \in DOMAIN json.f /\ json.f["host"] # 0)
          THEN fatal(MissingField("host", item.k)) /\ UNCHANGED <<projects, fs>>
          ELSE LET host_name == json.f["host"]
                   host == DictGet(hosts, host_name)
               IN IF host = <<>>
                  THEN /\ fatal([NoError EXCEPT !.kind = "UnresolvedReference",
                                                 !.value = <<host_name>>,
                                                 !.context = item.k,
                                                 !.validOptions = ValidHosts(hosts)])
                       /\ UNCHANGED <<projects, fs>>
                  ELSE /\ projects' = DictSet(projects,
                                          [name |-> item.k,
                                           host |-> host[1],
                                           absolute_host_path |-> <<host[1].url, "/", host_name>>,
                                           absolute_local_path |-> <<root_dir, item.k>>])
                       /\ fs' = fs \cup {<<root_dir, item.k>>}
                       /\ UNCHANGED <<pc, outcome, error>>
    /\ UNCHANGED <<manifest, woid_version, root_dir, projects_dir, hosts, warnings, reads, dumped>>

\* return res; self.projects = res
ParseWorkspaceProjectsReturn ==
    /\ pc = "project_loop"
    /\ Len(projects) = Len(manifest.projects.items)
    /\ pc' = "dump"
    /\ UNCHANGED <<manifest, outcome, error, woid_version, root_dir, projects_dir, hosts, projects,
                   warnings, fs, reads, dumped>>

\* Faulty variant of DumpVersion: f"{minor}.{major}"
DumpVersionSwapped(v) == IntStr(v.minor) \o <<".">> \o IntStr(v.major)

\* f"{major}.{minor}"
DumpVersion(v) == IntStr(v.major) \o <<".">> \o IntStr(v.minor)

\* Workspace.dump()
dump ==
    [woid_version |-> DumpVersion(woid_version[1]),
     root_dir |-> root_dir,
     projects_dir |-> projects_dir,
     hosts |-> [i \in DOMAIN hosts |-> [name |-> hosts[i].name, url |-> hosts[i].url]],
     projects |-> [i \in DOMAIN projects |->
                    [name |-> projects[i].name,
                     host_path |-> projects[i].absolute_host_path,
                     local_path |-> projects[i].absolute_local_path]]]

\* log.dbg(..., workspace=self.dump()); the constructor returns the Workspace.
Finish ==
    /\ pc = "dump"
    /\ dumped' = <<dump>>
    /\ outcome' = "Loaded"
    /\ pc' = "exit"
    /\ UNCHANGED <<manifest, error, woid_version, root_dir, projects_dir, hosts, projects, warnings,
                   fs, reads>>

Next ==
    \/ ReadText
    \/ DecodeJson
    \/ ParseWorkspaceVersion
    \/ ParseWorkspaceHosts
    \/ HostInit
    \/ ParseWorkspaceHostsReturn
    \/ ParseWorkspaceProjects
    \/ ProjectInit
    \/ ParseWorkspaceProjectsReturn
    \/ Finish

Spec == Init /\ [][Next]_vars

\* ------------------------------------------------- what the manifest says
Terminal == outcome # "running"
IsObject == manifest.kind = "object"

\* The string matches ^\d+\.\d+$ .
MatchesVersionFormat(s) ==
    \E i \in DOMAIN s :
        /\ s[i] = "."
        /\ 1 < i /\ i < Len(s)
        /\ \A j \in DOMAIN s : j # i => IsDigit(s[j])

DeclaredHostItems == IF IsObject /\ manifest.hosts.t = "obj" THEN manifest.hosts.items ELSE <<>>
DeclaredProjectItems == IF IsObject /\ manifest.projects.t = "obj" THEN manifest.projects.items ELSE <<>>
DeclaredHostOrder == [i \in DOMAIN DeclaredHostItems |-> DeclaredHostItems[i].k]
DeclaredProjectOrder == [i \in DOMAIN DeclaredProjectItems |-> DeclaredProjectItems[i].k]
DeclaredHostNames == {DeclaredHostItems[i].k : i \in DOMAIN DeclaredHostItems}
DeclaredProjectNames == {DeclaredProjectItems[i].k : i \in DOMAIN DeclaredProjectItems}

HostJsonValid(j) == j.t = "obj" /\ "url" \in DOMAIN j.f /\ j.f["url"] # ""
HasHostValue(j) == j.t = "obj" /\ "host" \in DOMAIN j.f
ProjectJsonValid(j) == HasHostValue(j) /\ j.f["host"] \in DeclaredHostNames

VersionDefect ==
    IsObject /\ (~VersionTruthy(manifest.version)
                 \/ LET parts == Split(StrOf(manifest.version))
                    IN Len(parts) # 2 \/ ~IntOk(parts[1]) \/ ~IntOk(parts[2]))
HostsDefect ==
    IsObject /\ (manifest.hosts.t # "obj" \/ manifest.hosts.items = <<>>
                 \/ \E i \in DOMAIN manifest.hosts.items : ~HostJsonValid(manifest.hosts.items[i].v))
ProjectsDefect ==
    IsObject /\ (manifest.projects.t # "obj" \/ manifest.projects.items = <<>>
                 \/ \E i \in DOMAIN manifest.projects.items : ~ProjectJsonValid(manifest.projects.items[i].v))

\* The stage an error or an exception comes from.
VersionStageError ==
    \/ outcome = "Failed" /\ error.kind = "MissingField" /\ error.field = "version"
    \/ outcome = "Failed" /\ error.kind = "MalformedVersion"
    \/ outcome = "Crashed" /\ error.field = "_parse_workspace_version"
HostStageError ==
    \/ outcome = "Failed" /\ error.kind = "MissingField" /\ error.field \in {"hosts", "url"}
    \/ outcome = "Crashed" /\ error.field \in {"_parse_workspace_hosts", "Host.__init__"}
ProjectStageError ==
    \/ outcome = "Failed" /\ error.kind = "MissingField" /\ error.field \in {"projects", "host"}
    \/ outcome = "Failed" /\ error.kind = "UnresolvedReference"
    \/ outcome = "Crashed" /\ error.field \in {"_parse_workspace_projects", "Project.__init__"}

VersionStagePassed == woid_version # <<>>
HostStagePassed == VersionStagePassed /\ DeclaredHostItems # <<>> /\ Keys(hosts) = DeclaredHostOrder

\* ------------------------------------------------------------------ claims

\* C1: in a loaded Workspace every project's host is the Host stored in
\* Workspace.hosts under the name the project's "host" value gives, and a
\* manifest with a project whose "host" value is not a declared host name is
\* never loaded.
C1_ReferentialIntegrity ==
    /\ outcome = "Loaded" =>
          \A i \in DOMAIN projects :
              LET ref == DeclaredProjectItems[i].v.f["host"]
              IN /\ projects[i].name = DeclaredProjectItems[i].k
                 /\ \E h \in DOMAIN hosts : hosts[h].name = ref /\ hosts[h] = projects[i].host
    /\ (\E i \in DOMAIN DeclaredProjectItems :
            /\ HasHostValue(DeclaredProjectItems[i].v)
            /\ DeclaredProjectItems[i].v.f["host"] \notin DeclaredHostNames)
          => outcome # "Loaded"

C1_Witness ==
    /\ outcome = "Loaded"
    /\ Len(hosts) = 2 /\ Len(projects) = 2
    /\ projects[1].host.name = 2 /\ projects[2].host.name = 1

\* C2: every valid manifest (version in <digits>.<digits> form, every host
\* with a non-empty url, every project's host declared) loads, for any
\* number N >= 0 of hosts and M >= 0 of projects, and the Workspace has the
\* manifest's hosts and projects in manifest order.
C2_ValidManifestLoads ==
    (/\ Terminal
     /\ IsObject
     /\ manifest.version.t = "str" /\ MatchesVersionFormat(manifest.version.s)
     /\ manifest.hosts.t = "obj"
     /\ \A i \in DOMAIN manifest.hosts.items : HostJsonValid(manifest.hosts.items[i].v)
     /\ manifest.projects.t = "obj"
     /\ \A i \in DOMAIN manifest.projects.items : ProjectJsonValid(manifest.projects.items[i].v))
    => (/\ outcome = "Loaded"
        /\ Keys(hosts) = DeclaredHostOrder
        /\ Keys(projects) = DeclaredProjectOrder)

\* C3: when version, hosts or projects is absent (and the stages before it
\* passed) the load fails with MissingField naming that field, and
\* MissingField names one of the three only when the manifest does not
\* have that field (JSON null counted as not having it).
C3_MissingFieldIffAbsent ==
    (Terminal /\ IsObject) =>
        /\ manifest.version.t = "absent"
              => outcome = "Failed" /\ error = MissingField("version", 0)
        /\ (manifest.hosts.t = "absent" /\ VersionStagePassed)
              => outcome = "Failed" /\ error = MissingField("hosts", 0)
        /\ (manifest.projects.t = "absent" /\ HostStagePassed)
              => outcome = "Failed" /\ error = MissingField("projects", 0)
        /\ \A field \in {"version", "hosts", "projects"} :
              (outcome = "Failed" /\ error.kind = "MissingField" /\ error.field = field)
              => manifest[field].t \in {"absent", "null"}

\* C4: a version whose string form does not match ^\d+\.\d+$ makes the load
\* fail with MalformedVersion carrying the raw string.
C4_MalformedVersionRejected ==
    (/\ Terminal
     /\ IsObject
     /\ VersionTruthy(manifest.version)
     /\ ~MatchesVersionFormat(StrOf(manifest.version)))
    => (/\ outcome = "Failed"
        /\ error.kind = "MalformedVersion"
        /\ error.value = StrOf(manifest.version))

\* The first project of the manifest that cannot be constructed.
FirstBadProject(i) ==
    /\ i \in DOMAIN DeclaredProjectItems
    /\ ~ProjectJsonValid(DeclaredProjectItems[i].v)
    /\ \A j \in 1..(i - 1) : ProjectJsonValid(DeclaredProjectItems[j].v)

Dangling(j) == HasHostValue(j) /\ j.f["host"] # 0 /\ j.f["host"] \notin DeclaredHostNames

SortedHostNames ==
    [i \in 1..Cardinality(DeclaredHostNames) |->
        CHOOSE x \in DeclaredHostNames : Cardinality({y \in DeclaredHostNames : y < x}) = i - 1]

C6_TwoOutcomes ==
    /\ outcome \in {"running", "Loaded", "Failed"}
    /\ outcome = "Failed" =>
          error.kind \in {"IOFailure", "DecodeFailure", "MissingField", "MalformedVersion",
                          "UnresolvedReference"}
    /\ outcome = "Loaded" =>
          /\ woid_version[1].major >= 0 /\ woid_version[1].minor >= 0
          /\ Keys(hosts) = DeclaredHostOrder
          /\ Keys(projects) = DeclaredProjectOrder

\* C7: the load leaves the filesystem as it found it and reads the manifest
\* file at most once.
C7_FilesystemUnchanged == fs = {} /\ reads <= 1

Canonical(c) ==
    /\ Len(IntBody(c)) = 1 \/ IntBody(c)[1] # "0"
    /\ ~(c[1] = "-" /\ IntBody(c) = <<"0">>)

C9_ExtraneousFieldsWarnOnly ==
    /\ \A i \in DOMAIN hosts :
          LET f == DeclaredHostItems[i].v.f
              E == (DOMAIN f) \ {"url"}
          IN /\ hosts[i] = [name |-> DeclaredHostItems[i].k, url |-> f["url"]]
             /\ E # {} <=> \E w \in DOMAIN warnings : warnings[w].host = hosts[i].name
             /\ \A w \in DOMAIN warnings : warnings[w].host = hosts[i].name => warnings[w].keys = E
    /\ \A w \in DOMAIN warnings : \E i \in DOMAIN hosts : warnings[w].host = hosts[i].name
    /\ Len(warnings) <= Len(hosts)
    /\ (Terminal /\ VersionStagePassed /\ Len(hosts) < Len(DeclaredHostItems))
          => ~HostJsonValid(DeclaredHostItems[Len(hosts) + 1].v)
    /\ (pc \in {"projects", "project_loop", "dump"} \/ (Terminal /\ ~HostStageError /\ VersionStagePassed))
          => \A i \in DOMAIN DeclaredHostItems :
                HostJsonValid(DeclaredHostItems[i].v) => HasKey(hosts, DeclaredHostItems[i].k)

C9_Witness ==
    /\ Len(hosts) = 2
    /\ Len(warnings) = 1
    /\ warnings[1] = [host |-> hosts[2].name, keys |-> {"extra", "branch"}]
    /\ DOMAIN DeclaredHostItems[1].v.f = {"url"}

\* C10: the stages run in the order read, decode, version, hosts, projects
\* and the load stops at the first error: the error reported is that of the
\* earliest defective stage, no host is constructed after a version error,
\* no project after a host error, and every host is constructed before
\* any project.
C10_FixedOrderFirstError ==
    /\ pc # "read" => reads = 1
    /\ (pc \in {"hosts", "host_loop"} \/ hosts # <<>>) => VersionStagePassed
    /\ (pc \in {"projects", "project_loop", "dump"} \/ projects # <<>> \/ dumped # <<>>)
          => HostStagePassed
    /\ Terminal =>
          /\ manifest.kind = "unreadable" => outcome = "Failed" /\ error.kind = "IOFailure"
          /\ manifest.kind = "undecodable" => outcome = "Failed" /\ error.kind = "DecodeFailure"
          /\ VersionDefect => VersionStageError /\ hosts = <<>> /\ projects = <<>>
          /\ (IsObject /\ ~VersionDefect /\ HostsDefect)
                => HostStageError /\ projects = <<>> /\ fs = {}
          /\ (IsObject /\ ~VersionDefect /\ ~HostsDefect /\ ProjectsDefect) => ProjectStageError
          /\ VersionStageError => hosts = <<>> /\ projects = <<>> /\ warnings = <<>>
          /\ HostStageError => projects = <<>> /\ fs = {}
          /\ outcome # "Loaded" => dumped = <<>>

C10_Witness ==
    /\ outcome = "Failed"
    /\ error.kind = "MalformedVersion"
    /\ HostsDefect
    /\ ProjectsDefect

====
